---- MODULE Spec2Model ----
(***************************************************************************)
(* BlockAgent Toolkit, Streamlit front end.                                *)
(*                                                                         *)
(*   streamlit_app/intent_router.py  parse_prompt: text -> Intent          *)
(*   streamlit_app/app.py            the script Streamlit runs top to      *)
(*                                   bottom on every widget interaction    *)
(*                                                                         *)
(* Texts are TLA+ strings; Len, SubSeq and \o act on them character by     *)
(* character.  An Optional[...] field is <<>> for None and <<v>> for v.    *)
(***************************************************************************)
EXTENDS Integers, Sequences, FiniteSets, TLC

VARIABLES
    user_text,      \* the text the classifier / the "Go" handler is given
    intent,         \* <<>> before a call, <<Intent>> after parse_prompt returned
    storage_addr,   \* st.session_state.storage_addr
    plan,           \* st.session_state.plan: <<>> when unset or None, else <<plan>>
    click,          \* the button whose press started the latest script run
    requests,       \* backend requests issued during the latest script run
    reply,          \* what the backend answered to the latest request, <<>> if none
    shown,          \* what the latest script run rendered (st.error, st.json, ...)
    crashed,        \* "none", or the exception that aborted the latest script run
    deployed,       \* history: address returned by the latest successful deployment
    planned,        \* history: <<p>>, p the plan field of the latest successful
                    \* /agent/plan response; <<>> before the first one
    superseded      \* history: the plan fields of the successful /agent/plan
                    \* responses before the latest one

vars == <<user_text, intent, storage_addr, plan, click, requests, reply, shown,
          crashed, deployed, planned, superseded>>

None == <<>>
Some(v) == <<v>>

(***************************************************************************)
(* Characters and the str methods parse_prompt uses.                       *)
(***************************************************************************)
UpperCase == "ABCDEFGHIJKLMNOPQRSTUVWXYZ"
LowerCase == "abcdefghijklmnopqrstuvwxyz"
Digits == "0123456789"
Whitespace == {" ", "\t", "\n", "\r", "\f"}

CharAt(s, i) == SubSeq(s, i, i)

IndexIn(alphabet, c) ==
    IF \E i \in 1..Len(alphabet) : CharAt(alphabet, i) = c
    THEN CHOOSE i \in 1..Len(alphabet) : CharAt(alphabet, i) = c
    ELSE 0

CharsOf(alphabet) == {CharAt(alphabet, i) : i \in 1..Len(alphabet)}

\* the lower-case letter of each upper-case letter
ToLower == [c \in CharsOf(UpperCase) |-> CharAt(LowerCase, IndexIn(UpperCase, c))]

\* the value of each decimal digit
DigitValue == [c \in CharsOf(Digits) |-> IndexIn(Digits, c) - 1]

\* str.lower(), one character
lower_char(c) == IF c \in DOMAIN ToLower THEN ToLower[c] ELSE c

\* str.lower()
RECURSIVE lower(_)
lower(s) ==
    IF Len(s) = 0 THEN ""
    ELSE lower_char(CharAt(s, 1)) \o lower(SubSeq(s, 2, Len(s)))

IsSpace(c) == c \in Whitespace

\* str.strip(): drop leading and trailing whitespace
strip(s) ==
    LET keep == {i \in 1..Len(s) : ~IsSpace(CharAt(s, i))}
        lo == CHOOSE i \in keep : \A j \in keep : i <= j
        hi == CHOOSE i \in keep : \A j \in keep : j <= i
    IN IF keep = {} THEN "" ELSE SubSeq(s, lo, hi)

\* Python's `k in t` on strings
contains(t, k) ==
    \E i \in 1..(Len(t) - Len(k) + 1) : SubSeq(t, i, i + Len(k) - 1) = k

\* str.startswith
startswith(w, p) == Len(w) >= Len(p) /\ SubSeq(w, 1, Len(p)) = p

\* str.split() with no argument: the maximal runs of non-whitespace, in order
RECURSIVE split(_)
split(s) ==
    IF Len(s) = 0 THEN <<>>
    ELSE IF IsSpace(CharAt(s, 1)) THEN split(SubSeq(s, 2, Len(s)))
    ELSE LET stops == {i \in 1..Len(s) : IsSpace(CharAt(s, i))}
             stop == IF stops = {} THEN Len(s) + 1
                     ELSE CHOOSE i \in stops : \A j \in stops : i <= j
         IN <<SubSeq(s, 1, stop - 1)>> \o split(SubSeq(s, stop, Len(s)))

IsDigit(c) == c \in DOMAIN DigitValue

\* int() of a string of decimal digits
RECURSIVE int(_)
int(d) ==
    IF Len(d) = 0 THEN 0
    ELSE 10 * int(SubSeq(d, 1, Len(d) - 1)) + DigitValue[CharAt(d, Len(d))]

(***************************************************************************)
(* intent_router.py                                                        *)
(***************************************************************************)
Actions == {"NEW_WALLET", "GET_BALANCE", "DEPLOY_SIMPLE_STORAGE", "SET_STORAGE",
            "READ_STORAGE", "UNKNOWN"}

Intent(action, chain, address, value) ==
    [action |-> action, chain |-> chain, address |-> address, value |-> value,
     args |-> None]

\* a chain scan that prefers aurora to celo
ChainOf_AuroraFirst(t) ==
    IF contains(t, "aurora") THEN Some("aurora")
    ELSE IF contains(t, "celo") THEN Some("celo")
    ELSE IF contains(t, "harmony") THEN Some("harmony")
    ELSE None

\* for c in ["celo", "aurora", "harmony"]: if c in t: chain = c; break
ChainOf(t) ==
    IF contains(t, "celo") THEN Some("celo")
    ELSE IF contains(t, "aurora") THEN Some("aurora")
    ELSE IF contains(t, "harmony") THEN Some("harmony")
    ELSE None

AddrMinLen == 20

\* the loop with `>=` in place of `>`
RECURSIVE FirstAddr_AtLeast(_)
FirstAddr_AtLeast(ws) ==
    IF Len(ws) = 0 THEN None
    ELSE IF startswith(Head(ws), "0x") /\ Len(Head(ws)) >= AddrMinLen THEN Some(Head(ws))
    ELSE FirstAddr_AtLeast(Tail(ws))

\* for w in t.split(): if w.startswith("0x") and len(w) > 20: addr = w; break
RECURSIVE FirstAddr(_)
FirstAddr(ws) ==
    IF Len(ws) = 0 THEN None
    ELSE IF startswith(Head(ws), "0x") /\ Len(Head(ws)) > AddrMinLen THEN Some(Head(ws))
    ELSE FirstAddr(Tail(ws))

\* a search that returns one digit, not the run
SearchDigits_OneDigit(t) ==
    LET ds == {i \in 1..Len(t) : IsDigit(CharAt(t, i))}
        lo == CHOOSE i \in ds : \A j \in ds : i <= j
    IN IF ds = {} THEN None ELSE Some(SubSeq(t, lo, lo))

\* re.search(r'(\d+)', t): the leftmost match, extended greedily
SearchDigits(t) ==
    LET ds == {i \in 1..Len(t) : IsDigit(CharAt(t, i))}
        lo == CHOOSE i \in ds : \A j \in ds : i <= j
        ends == {e \in lo..Len(t) : \A j \in lo..e : IsDigit(CharAt(t, j))}
        hi == CHOOSE e \in ends : \A f \in ends : f <= e
    IN IF ds = {} THEN None ELSE Some(SubSeq(t, lo, hi))

\* val = int(m.group(1)) if m else 0
ValueOf(t) ==
    LET m == SearchDigits(t) IN IF m # None THEN int(m[1]) ELSE 0

\* the branches with the balance test ahead of the wallet test
parse_prompt_BalanceFirst(text) ==
    LET t == strip(lower(text))
        chain == ChainOf(t)
    IN IF contains(t, "balance") \/ contains(t, "check my money")
       THEN Intent("GET_BALANCE", chain, FirstAddr(split(t)), None)
       ELSE IF contains(t, "new wallet") \/ contains(t, "create wallet")
       THEN Intent("NEW_WALLET", chain, None, None)
       ELSE IF contains(t, "deploy") /\ contains(t, "storage")
       THEN Intent("DEPLOY_SIMPLE_STORAGE", chain, None, None)
       ELSE IF contains(t, "set value") \/ contains(t, "set storage")
       THEN Intent("SET_STORAGE", chain, None, Some(ValueOf(t)))
       ELSE IF contains(t, "read") \/ contains(t, "get value")
       THEN Intent("READ_STORAGE", chain, None, None)
       ELSE Intent("UNKNOWN", chain, None, None)

\* the branches with no action on the fall-through path
parse_prompt_NoDefault(text) ==
    LET t == strip(lower(text))
        chain == ChainOf(t)
    IN IF contains(t, "new wallet") \/ contains(t, "create wallet")
       THEN Intent("NEW_WALLET", chain, None, None)
       ELSE IF contains(t, "balance") \/ contains(t, "check my money")
       THEN Intent("GET_BALANCE", chain, FirstAddr(split(t)), None)
       ELSE IF contains(t, "deploy") /\ contains(t, "storage")
       THEN Intent("DEPLOY_SIMPLE_STORAGE", chain, None, None)
       ELSE IF contains(t, "set value") \/ contains(t, "set storage")
       THEN Intent("SET_STORAGE", chain, None, Some(ValueOf(t)))
       ELSE IF contains(t, "read") \/ contains(t, "get value")
       THEN Intent("READ_STORAGE", chain, None, None)
       ELSE Intent("", chain, None, None)

parse_prompt(text) ==
    LET t == strip(lower(text))
        chain == ChainOf(t)
    IN IF contains(t, "new wallet") \/ contains(t, "create wallet")
       THEN Intent("NEW_WALLET", chain, None, None)
       ELSE IF contains(t, "balance") \/ contains(t, "check my money")
       THEN Intent("GET_BALANCE", chain, FirstAddr(split(t)), None)
       ELSE IF contains(t, "deploy") /\ contains(t, "storage")
       THEN Intent("DEPLOY_SIMPLE_STORAGE", chain, None, None)
       ELSE IF contains(t, "set value") \/ contains(t, "set storage")
       THEN Intent("SET_STORAGE", chain, None, Some(ValueOf(t)))
       ELSE IF contains(t, "read") \/ contains(t, "get value")
       THEN Intent("READ_STORAGE", chain, None, None)
       ELSE Intent("UNKNOWN", chain, None, None)

(***************************************************************************)
(* The texts the classifier is checked on: up to MaxFrags fragments        *)
(* joined by single spaces.                                                *)
(***************************************************************************)
MaxFrags == 3

Vocab == {
    "new wallet", "Create Wallet", "balance", "check my money", "deploy",
    "set value", "set storage", "read", "get value",
    "celo", "aurora", "xharmonyx", "\t",
    "0x1234567890abcdef1234",     \* 22 characters
    "0XABCDEF0123456789ABCD",     \* 22 characters, upper case
    "0x123456789012345678",       \* 20 characters
    "042" }

RECURSIVE TextsOf(_)
TextsOf(n) ==
    IF n = 0 THEN {""}
    ELSE LET shorter == TextsOf(n - 1)
         IN shorter \cup Vocab \cup {s \o " " \o f : s \in shorter \ {""}, f \in Vocab}

Texts == TextsOf(MaxFrags)

(***************************************************************************)
(* The classifier on its own: one call of parse_prompt on each text.       *)
(***************************************************************************)
ClassifyInit ==
    /\ user_text \in Texts
    /\ intent = None
    /\ storage_addr = ""
    /\ plan = None
    /\ click = "none"
    /\ requests = <<>>
    /\ reply = None
    /\ shown = <<>>
    /\ crashed = "none"
    /\ deployed = ""
    /\ planned = None
    /\ superseded = {}

\* intent = parse_prompt(user_text)
Classify ==
    /\ intent = None
    /\ intent' = Some(parse_prompt(user_text))
    /\ UNCHANGED <<user_text, storage_addr, plan, click, requests, reply, shown,
                   crashed, deployed, planned, superseded>>

ClassifyNext == Classify

ClassifySpec == ClassifyInit /\ [][ClassifyNext]_vars

(***************************************************************************)
(* app.py.  Streamlit runs the script from its first line to its last on   *)
(* every interaction; a button is True only in the run its press started,  *)
(* so each press is one action that covers the whole run.  The backend is  *)
(* outside the program: what it answers is an input of the action.         *)
(***************************************************************************)
Addrs == {"0xA11CE", "0xB0B"}
OptAddr == {None} \cup {Some(a) : a \in Addrs}

\* what /agent/plan hands back as "plan": a record with a "tool" field
Plans == {[tool |-> "DEPLOY_CONTRACT"], [tool |-> "CONTRACT_CALL"]}
OptPlan == {None} \cup {Some(p) : p \in Plans}

\* the texts typed into the "Tell me what to do" box
SessionTexts ==
    {"", "create wallet on celo", "balance 0x1234567890abcdef1234", "check my balance",
     "deploy simple storage on aurora", "set value 42", "read", "hello"}

\* requests.get / requests.post raising, raise_for_status() raising
Errors == {"ConnectionError", "HTTPError", "ReadTimeout"}
Failures == {[ok |-> FALSE, err |-> e] : e \in Errors}

\* r.json() of a 2xx response, by endpoint.  For /contract/deploy, address is
\* <<>> when the object has no "address" key; for /agent/plan likewise "plan";
\* for /agent/execute, address is <<a>> when data["result"] is a dict that
\* holds "address": a, and <<>> otherwise.
Successes(path) ==
    IF path = "/contract/deploy" THEN {[ok |-> TRUE, data |-> [address |-> x]] : x \in OptAddr}
    ELSE IF path = "/agent/plan" THEN {[ok |-> TRUE, data |-> [plan |-> x]] : x \in OptPlan}
    ELSE IF path = "/agent/execute"
    THEN {[ok |-> TRUE, data |-> [result_address |-> x]] : x \in OptAddr}
    ELSE {[ok |-> TRUE, data |-> [status |-> "ok"]]}

Outcomes(path) == Failures \cup Successes(path)

Request(method, path, body) == [method |-> method, path |-> path, body |-> body]

\* a client that sends the request again after a failure
call_backend_Retry(log, method, path, body, out) ==
    [log |-> IF out.ok THEN Append(log, Request(method, path, body))
             ELSE Append(Append(log, Request(method, path, body)),
                         Request(method, path, body)),
     data |-> IF out.ok THEN Some(out.data) ELSE None,
     err |-> IF out.ok THEN None ELSE Some(out.err)]

\* call_backend: one request; (r.json(), None), or (None, str(e)) on any exception
call_backend(log, method, path, body, out) ==
    [log |-> Append(log, Request(method, path, body)),
     data |-> IF out.ok THEN Some(out.data) ELSE None,
     err |-> IF out.ok THEN None ELSE Some(out.err)]

\* what one script run leaves behind
Run(button, it, reqs, answer, output, crash, saddr, splan, dep, pl, sup) ==
    /\ click' = button
    /\ intent' = it
    /\ requests' = reqs
    /\ reply' = answer
    /\ shown' = output
    /\ crashed' = crash
    /\ storage_addr' = saddr
    /\ plan' = splan
    /\ deployed' = dep
    /\ planned' = pl
    /\ superseded' = sup

\* the widgets below the expander are on the page only if the latest run got that far
PageRendered == crashed = "none"

Init ==
    /\ user_text = ""
    /\ intent = None
    /\ storage_addr = ""
    /\ plan = None
    /\ click = "none"
    /\ requests = <<>>
    /\ reply = None
    /\ shown = <<>>
    /\ crashed = "none"
    /\ deployed = ""
    /\ planned = None
    /\ superseded = {}

\* editing "REST base URL": a run with no button pressed
EditBackendUrl ==
    /\ UNCHANGED user_text
    /\ Run("none", None, <<>>, None, <<>>, "none",
           storage_addr, plan, deployed, planned, superseded)

\* editing "Tell me what to do": a run with no button pressed
TypeText ==
    /\ PageRendered
    /\ \E txt \in SessionTexts : user_text' = txt
    /\ Run("none", None, <<>>, None, <<>>, "none",
           storage_addr, plan, deployed, planned, superseded)

\* "Ping Backend": line 26 calls call_backend, which the script defines only
\* at line 37; the name is unbound and the run ends there with NameError.
PingBackend ==
    /\ UNCHANGED user_text
    /\ Run("ping", None, <<>>, None, <<>>, "NameError",
           storage_addr, plan, deployed, planned, superseded)

\* the endpoint the Go branch of an intent calls, "" when it calls none
GoPath(it, saddr) ==
    IF it.action = "NEW_WALLET" THEN "/wallet/new"
    ELSE IF it.action = "GET_BALANCE" THEN (IF it.address # None THEN "/balance" ELSE "")
    ELSE IF it.action = "DEPLOY_SIMPLE_STORAGE" THEN "/contract/deploy"
    ELSE IF it.action \in {"SET_STORAGE", "READ_STORAGE"}
    THEN (IF saddr # "" THEN "/contract/call" ELSE "")
    ELSE ""

\* the request body of each Go branch
GoBody(it, saddr) ==
    IF it.action = "NEW_WALLET" THEN [chain |-> it.chain]
    ELSE IF it.action = "GET_BALANCE" THEN [address |-> it.address, chain |-> it.chain]
    ELSE IF it.action = "DEPLOY_SIMPLE_STORAGE"
    THEN [abi |-> "SimpleStorage", bytecode |-> "0x6080", args |-> <<>>, chain |-> it.chain]
    ELSE IF it.action = "SET_STORAGE"
    THEN [abi |-> "SimpleStorage", address |-> saddr, method |-> "set",
          args |-> <<IF it.value # None THEN it.value[1] ELSE 0>>, write |-> TRUE,
          chain |-> it.chain]
    ELSE [abi |-> "SimpleStorage", address |-> saddr, method |-> "get", args |-> <<>>,
          write |-> FALSE, chain |-> it.chain]

\* what each Go branch renders
GoShown(it, path, r) ==
    <<<<"write", it.action>>>> \o
    (IF path = "" THEN
        IF it.action = "UNKNOWN" THEN <<<<"info", "I didn't understand">>>>
        ELSE IF it.action = "GET_BALANCE"
        THEN <<<<"warning", "Please include the address in your request">>>>
        ELSE <<<<"warning", "Please paste the contract address.">>>>
     ELSE IF r.err # None THEN <<<<"error", r.err[1]>>>>
     ELSE IF it.action = "NEW_WALLET" THEN <<<<"success", "New wallet created">>, <<"json", r.data[1]>>>>
     ELSE IF it.action = "DEPLOY_SIMPLE_STORAGE"
     THEN <<<<"success", "Contract deployed">>, <<"json", r.data[1]>>>>
     ELSE IF it.action = "SET_STORAGE"
     THEN <<<<"success", "Transaction sent">>, <<"json", r.data[1]>>>>
     ELSE <<<<"json", r.data[1]>>>>)

\* "Go": if go and user_text: parse_prompt, then the branch of intent.action.
\* The contract address of SET_STORAGE / READ_STORAGE is the text_input created
\* in this run, which returns its default, storage_addr.  A successful
\* /contract/deploy is a deployment; the address it returned ("" if the
\* response names none) goes to storage_addr and to the history.
Go ==
    /\ PageRendered
    /\ UNCHANGED user_text
    /\ IF user_text = ""
       THEN Run("go", None, <<>>, None, <<>>, "none",
                storage_addr, plan, deployed, planned, superseded)
       ELSE \E it \in {parse_prompt(user_text)} :
              LET path == GoPath(it, storage_addr)
              IN IF path = ""
                 THEN Run("go", Some(it), <<>>, None, GoShown(it, path, None), "none",
                          storage_addr, plan, deployed, planned, superseded)
                 ELSE \E out \in Outcomes(path) :
                        LET r == call_backend(<<>>,
                                              IF path = "/balance" THEN "GET" ELSE "POST",
                                              path, GoBody(it, storage_addr), out)
                            isDeploy == path = "/contract/deploy" /\ r.err = None
                            \* data.get("address", "")
                            got == IF isDeploy /\ r.data[1].address # None
                                   THEN r.data[1].address[1] ELSE ""
                        IN Run("go", Some(it), r.log, Some(out), GoShown(it, path, r),
                               "none", IF isDeploy THEN got ELSE storage_addr, plan,
                               IF isDeploy THEN got ELSE deployed, planned, superseded)

\* a handler that stores the plan field without looking at err
PlanStored_Unchecked(old, r) == IF r.data # None THEN r.data[1].plan ELSE None

\* the plan a successful /agent/plan response leaves in the session
PlanStored(old, r) == IF r.err # None THEN old ELSE r.data[1].plan

\* "Plan": POST /agent/plan; on success session_state.plan = plan.get("plan").
\* History: a successful response becomes the latest one, the one before it
\* joins the superseded ones.
Plan ==
    /\ PageRendered
    /\ UNCHANGED user_text
    /\ \E chain_opt \in {"default", "celo"}, out \in Outcomes("/agent/plan") :
         LET r == call_backend(<<>>, "POST", "/agent/plan",
                               [prompt |-> "send 0.01 to 0xabc",
                                chain |-> IF chain_opt = "default" THEN None
                                          ELSE Some(chain_opt)], out)
         IN Run("plan", None, r.log, Some(out),
                IF r.err # None THEN <<<<"error", r.err[1]>>>> ELSE <<<<"json", r.data[1]>>>>,
                "none", storage_addr, PlanStored(plan, r), deployed,
                IF r.err # None THEN planned ELSE Some(r.data[1].plan),
                IF r.err # None \/ planned = None THEN superseded
                ELSE superseded \cup {planned[1]})

\* the section under `if "plan" in st.session_state and st.session_state.plan`
ExecuteOffered == PageRendered /\ plan # None

\* the address a successful /agent/execute leaves in storage_addr
Captured(old, r) ==
    IF r.err = None /\ r.data[1].result_address # None
    THEN r.data[1].result_address[1] ELSE old

\* "Simulate & Execute": POST /agent/execute with the stored plan.  The address
\* field is the "Contract address" input of a CONTRACT_CALL plan (its default
\* or what the user typed).  History: the run is a deployment when the plan's
\* tool is DEPLOY_CONTRACT and the response carries the address of a result.
SimulateExecute ==
    /\ ExecuteOffered
    /\ UNCHANGED user_text
    /\ \E approve \in BOOLEAN, typed \in {storage_addr, "0xC0DE"},
          out \in Outcomes("/agent/execute") :
         LET p == IF plan # None THEN plan[1] ELSE [tool |-> ""]
             address == IF p.tool = "CONTRACT_CALL" THEN typed ELSE ""
             r == call_backend(<<>>, "POST", "/agent/execute",
                               [plan |-> p, approve |-> approve,
                                abi |-> p.tool = "DEPLOY_CONTRACT",
                                bytecode |-> p.tool = "DEPLOY_CONTRACT",
                                address |-> address], out)
             isDeploy == /\ p.tool = "DEPLOY_CONTRACT"
                         /\ r.err = None
                         /\ r.data[1].result_address # None
         IN Run("execute", None, r.log, Some(out),
                IF r.err # None THEN <<<<"error", r.err[1]>>>> ELSE <<<<"json", r.data[1]>>>>,
                "none", Captured(storage_addr, r), plan,
                IF isDeploy THEN r.data[1].result_address[1] ELSE deployed,
                planned, superseded)

Next ==
    \/ EditBackendUrl
    \/ TypeText
    \/ PingBackend
    \/ Go
    \/ Plan
    \/ SimulateExecute

Spec == Init /\ [][Next]_vars

(***************************************************************************)
(* Claims about parse_prompt, checked under ClassifySpec.                  *)
(***************************************************************************)
Returned == intent # None
Result == intent[1]

\* the five action predicates of the specification, on a case-folded, trimmed text
Matches(t) ==
    << contains(t, "new wallet") \/ contains(t, "create wallet"),
       contains(t, "balance") \/ contains(t, "check my money"),
       contains(t, "deploy") /\ contains(t, "storage"),
       contains(t, "set value") \/ contains(t, "set storage"),
       contains(t, "read") \/ contains(t, "get value") >>

RuleAction ==
    <<"NEW_WALLET", "GET_BALANCE", "DEPLOY_SIMPLE_STORAGE", "SET_STORAGE", "READ_STORAGE">>

Hits(text) == LET m == Matches(strip(lower(text))) IN {i \in 1..5 : m[i]}

Least(S) == CHOOSE i \in S : \A j \in S : i <= j

\* C1: the action is that of the first predicate, in the fixed order, that the
\* lower-cased, trimmed text satisfies, and UNKNOWN when none does; an earlier
\* match wins over every later one.
C1_FirstMatchWins ==
    Returned =>
        LET h == Hits(user_text)
        IN Result.action = IF h = {} THEN "UNKNOWN" ELSE RuleAction[Least(h)]

\* C1 witness: a text that satisfies several predicates was classified by the
\* earliest of them, and its keywords were not all lower case as given.
C1_Witness ==
    /\ Returned
    /\ Cardinality(Hits(user_text)) >= 2
    /\ Result.action = RuleAction[Least(Hits(user_text))]
    /\ lower(user_text) # user_text

\* C2: whatever the action, chain is celo if the lower-cased text contains
\* "celo", else aurora if it contains "aurora", else harmony if it contains
\* "harmony", else unset; substring containment, priority not position.
C2_ChainPriority ==
    Returned =>
        LET l == lower(user_text)
        IN /\ contains(l, "celo") => Result.chain = Some("celo")
           /\ ~contains(l, "celo") /\ contains(l, "aurora") => Result.chain = Some("aurora")
           /\ ~contains(l, "celo") /\ ~contains(l, "aurora") /\ contains(l, "harmony")
                  => Result.chain = Some("harmony")
           /\ ~contains(l, "celo") /\ ~contains(l, "aurora") /\ ~contains(l, "harmony")
                  => Result.chain = None

\* C2 witness: "aurora" stands before "celo" in the text, no action keyword
\* matched, and the chain is celo.
C2_Witness ==
    /\ Returned
    /\ startswith(user_text, "aurora")
    /\ contains(user_text, " celo")
    /\ Result.action = "UNKNOWN"
    /\ Result.chain = Some("celo")

\* the tokens of a text that look like an address, by position
AddrTokens(text) ==
    LET ws == split(text)
    IN {i \in DOMAIN ws : startswith(ws[i], "0x") /\ Len(ws[i]) > AddrMinLen}

\* C3 as stated: address is set exactly for GET_BALANCE with an address-like
\* token in the text given to the classifier, and is then the first such token
\* with the characters it has in that text.
C3_AddressVerbatim ==
    Returned =>
        Result.address =
            IF Result.action = "GET_BALANCE" /\ AddrTokens(user_text) # {}
            THEN Some(split(user_text)[Least(AddrTokens(user_text))])
            ELSE None

\* C3 amended: address is set exactly for GET_BALANCE with an address-like
\* token in the lower-cased text, and is then the first such token with the
\* characters it has in the lower-cased text.
C3_AddressLowered ==
    Returned =>
        LET l == lower(user_text)
            found == AddrTokens(l)
        IN Result.address =
               IF Result.action = "GET_BALANCE" /\ found # {}
               THEN Some(split(l)[Least(found)])
               ELSE None

\* C3 witness: a balance request whose first "0x" token has 20 characters and
\* whose second, longer one was written in upper case; the address returned
\* is the second one in lower case.
C3_Witness ==
    /\ Returned
    /\ Result.action = "GET_BALANCE"
    /\ Len(split(user_text)) = 3
    /\ Len(split(user_text)[2]) = AddrMinLen
    /\ startswith(split(user_text)[2], "0x")
    /\ split(user_text)[3] = "0XABCDEF0123456789ABCD"
    /\ Result.address = Some("0xabcdef0123456789abcd")

\* the first maximal run of decimal digits of a text, <<>> when it has no digit
FirstDigitRun(text) ==
    LET digit == [i \in 0..(Len(text) + 1) |->
                     i \in 1..Len(text) /\ IsDigit(CharAt(text, i))]
        starts == {i \in 1..Len(text) : digit[i] /\ ~digit[i - 1]}
        ends == {i \in 1..Len(text) : digit[i] /\ ~digit[i + 1]}
    IN IF starts = {} THEN None ELSE Some(SubSeq(text, Least(starts), Least(ends)))

\* C4: value is set exactly for SET_STORAGE; it is the number written by the
\* first maximal run of decimal digits of the text, 0 when there is no digit.
C4_ValueIsFirstDigitRun ==
    Returned =>
        Result.value =
            IF Result.action # "SET_STORAGE" THEN None
            ELSE IF FirstDigitRun(user_text) = None THEN Some(0)
            ELSE Some(int(FirstDigitRun(user_text)[1]))

\* C4 witness: a SET_STORAGE text whose first digit run has two digits.
C4_Witness ==
    /\ Returned
    /\ Result.action = "SET_STORAGE"
    /\ FirstDigitRun(user_text) = Some("042")
    /\ Result.value = Some(42)

\* C4, second case: the "0" of a "0x..." token that precedes the number is
\* the run that counts.
C4_WitnessInsideToken ==
    /\ Returned
    /\ Result.action = "SET_STORAGE"
    /\ contains(user_text, "0x1234567890abcdef1234 042")
    /\ Result.value = Some(0)

Buttons == {"ping", "go", "plan", "execute"}
CallFailed == reply # None /\ ~reply[1].ok
Kinds(output) == {output[i][1] : i \in DOMAIN output}

\* C7: a press of any of the four buttons never ends the script run with an
\* exception, and a backend call that failed is shown as st.error with the
\* message call_backend returned, with no data rendered.
C7_FailuresReported ==
    /\ click \in Buttons => crashed = "none"
    /\ CallFailed =>
          /\ <<"error", reply[1].err>> \in {shown[i] : i \in DOMAIN shown}
          /\ Kinds(shown) \cap {"json", "success"} = {}

\* C8: a script run issues at most one backend request, also when the request
\* failed; Go issues none for UNKNOWN, none for GET_BALANCE without an
\* address, none for SET_STORAGE or READ_STORAGE without a contract address.
C8_AtMostOneRequest ==
    /\ Len(requests) <= 1
    /\ click = "go" /\ intent # None =>
          /\ intent[1].action = "UNKNOWN" => requests = <<>>
          /\ intent[1].action = "GET_BALANCE" /\ intent[1].address = None => requests = <<>>
          /\ intent[1].action \in {"SET_STORAGE", "READ_STORAGE"} /\ storage_addr = ""
                => requests = <<>>

\* C8 witness: a Go press whose single request failed and was not repeated.
C8_Witness ==
    /\ click = "go"
    /\ CallFailed
    /\ Len(requests) = 1

\* C9: storage_addr is the address returned by the latest successful
\* deployment, and "" before the first one.
C9_CachedAddrIsLastDeployed == storage_addr = deployed

\* C10: the stored plan is the plan field of the latest successful /agent/plan
\* response (so a failed Plan leaves it as it was), and a request to
\* /agent/execute is sent only when there was such a response and carries
\* that plan.
C10_ExecuteSendsLatestPlan ==
    /\ plan = IF planned = None THEN None ELSE planned[1]
    /\ \A i \in DOMAIN requests :
          requests[i].path = "/agent/execute" =>
              /\ planned # None
              /\ planned[1] # None
              /\ requests[i].body.plan = planned[1][1]

\* C10 witness: an execute request that carries the latest plan although an
\* earlier successful Plan answered with a different one.
C10_Witness ==
    /\ click = "execute"
    /\ Len(requests) = 1
    /\ requests[1].path = "/agent/execute"
    /\ \E q \in superseded : q # None /\ q[1] # requests[1].body.plan

====
